---- MODULE Spec2Model ----
(***************************************************************************)
(* Model of the markdown board engine of server/index.js: the file lock,   *)
(* parseKanban, rebuildKanban, the task-id sentinel and the handlers that  *)
(* read, change and write a board file.                                    *)
(*                                                                         *)
(* A board file is a sequence of lines (the text split at "\n"; the text is*)
(* the lines joined by "\n", so a text that ends in a newline has a last   *)
(* empty line).  A line is a record [k, d, s, v]: k is the kind of line    *)
(* the code's regular expressions and startsWith/includes tests tell       *)
(* apart, d a digit string or number list, s and v the texts it carries.   *)
(***************************************************************************)
EXTENDS Integers, Sequences, FiniteSets, TLC

\* ------------------------------------------------------------------ lines

L(k, d, s, v) == [k |-> k, d |-> d, s |-> s, v |-> v]

\* "" and whitespace-only lines: line.trim() === ''
Blank == L("blank", <<>>, "", "")
\* "## <one of the six emoji> <title>"
ColHdr(t) == L("col", <<>>, t, "")
\* "## <another emoji of U+1F400..U+1F7FF> <title>", as "## 🚀 Launch": none
\* of the six, with the same first UTF-16 unit D83D as five of them
PictoHdr(t) == L("picto", <<>>, t, "")
\* "## ⚙️ Configuration"
CfgHdr == L("cfg", <<>>, "", "")
\* any other level-2 heading, "## Notes"
OtherHdr(t) == L("head", <<>>, t, "")
\* "### TASK-<digits> | <title>"
TaskHdr(ds, t) == L("task", ds, t, "")
\* "### TASK-<digits>" with no " | <title>" part
BadTaskHdr(ds) == L("badtask", ds, "", "")
\* "**Key**: value"
Bold(key, val) == L("bold", <<>>, key, val)
\* "**Priority**: value | **Project**: project"
Bold2(val, proj) == L("bold2", <<>>, val, proj)
\* "<!-- text -->" on one line
Comment(s) == L("cmt", <<>>, s, "")
\* "<!-- images: /uploads/a, /uploads/b -->"
Images(ns) == L("img", ns, "", "")
\* "<!-- Config: Last Task ID: <digits> -->"
Sentinel(ds) == L("sent", ds, "", "")
\* "<!-- History:"
HistOpen == L("hopen", <<>>, "", "")
\* "-->"
HistClose == L("hclose", <<>>, "", "")
\* a free-text line
Text(s) == L("text", <<>>, s, "")
\* an audit line "<time> | <user> <action>"
Entry(t, who, act) == L("text", <<t>>, act, who)

\* line.startsWith('## ⚙️ Configuration')
IsConfigHeader(l) == l.k = "cfg"
\* line.match(/^## [💡📋🔨🚧👀✅]/): the regular expression has no u flag, so
\* its class is the set of the UTF-16 units of the six emoji, and the unit
\* D83D that five of them start with is the first unit of every emoji of
\* U+1F400..U+1F7FF
IsColumnHeader(l) == l.k \in {"col", "picto"}
\* line.match(/^### TASK-\d+/)
IsTaskStart(l) == l.k \in {"task", "badtask"}
\* line.match(/^### (TASK-\d+) \| (.+)$/)
IsTaskHeader(l) == l.k = "task"
\* line.startsWith('**')
StartsBold(l) == l.k \in {"bold", "bold2"}
\* line.includes('<!-- History:')
IncludesHistoryOpen(l) == l.k = "hopen"
\* line.includes('-->')
IncludesCommentClose(l) == l.k \in {"hclose", "cmt", "img", "sent"}
\* line.trim() === ''
IsBlankLine(l) == l.k = "blank"
\* line.startsWith('<!--')
StartsComment(l) == l.k \in {"cmt", "img", "sent", "hopen"}
\* line.startsWith('## ')
StartsH2(l) == l.k \in {"col", "picto", "cfg", "head"}
\* line.startsWith('### TASK-')
StartsTaskPrefix(l) == l.k \in {"task", "badtask"}

\* ----------------------------------------------------------- sequences

RECURSIVE Concat(_)
Concat(ss) == IF ss = <<>> THEN <<>> ELSE Head(ss) \o Concat(Tail(ss))

Take(s, n) == SubSeq(s, 1, n)
Drop(s, n) == SubSeq(s, n + 1, Len(s))

\* Array.prototype.splice(at, 0, x) with at clamped to the length
InsertAt(s, at, x) ==
  LET a == IF at > Len(s) THEN Len(s) ELSE at
  IN  Take(s, a) \o <<x>> \o Drop(s, a)

RemoveAt(s, i) == Take(s, i - 1) \o Drop(s, i)

\* index of the first element satisfying P, 0 when there is none
FirstIndex(s, P(_)) ==
  LET hits == {i \in 1..Len(s) : P(s[i])}
  IN  IF hits = {} THEN 0 ELSE CHOOSE i \in hits : \A j \in hits : i <= j

LastIndex(s, P(_)) ==
  LET hits == {i \in 1..Len(s) : P(s[i])}
  IN  IF hits = {} THEN 0 ELSE CHOOSE i \in hits : \A j \in hits : i >= j

RECURSIVE ForEach(_, _, _, _)
\* for (let i = lo; i <= hi; i++) acc = Step(acc, i), for a record acc.  The
\* range is halved, and DOMAIN acc (never empty) has acc computed before the
\* steps that use it, which keeps the evaluation shallow
ForEach(Step(_, _), acc, lo, hi) ==
  IF lo > hi \/ DOMAIN acc = {} THEN acc
  ELSE IF lo = hi THEN Step(acc, lo)
  ELSE LET mid == (lo + hi) \div 2
       IN  ForEach(Step, ForEach(Step, acc, lo, mid), mid + 1, hi)

\* String.prototype.trim() on a multi-line text: the blank lines at both ends go
TrimLines(ls) ==
  LET nb == {i \in 1..Len(ls) : ~IsBlankLine(ls[i])}
  IN  IF nb = {} THEN <<Blank>>
      ELSE SubSeq(ls, CHOOSE i \in nb : \A j \in nb : i <= j,
                      CHOOSE i \in nb : \A j \in nb : i >= j)

\* ------------------------------------------------------------- parseKanban

MetaKeys == {"priority", "project", "assigned", "creator", "tags", "closed"}

NoMeta == [key \in MetaKeys |-> <<>>]

\* currentTask = null
NoTask ==
  [open |-> FALSE, id |-> <<>>, title |-> "", content |-> <<>>,
   metadata |-> NoMeta, history |-> <<>>, body |-> <<>>, inHistory |-> FALSE,
   pushed |-> 0, ref |-> 0]

\* the object of lines 227-233: content starts as the header line; ref tells
\* the objects of one parse apart (entries of the columns with the same ref
\* are the same object)
NewTask(line, ref) ==
  [open |-> TRUE, id |-> line.d, title |-> line.s, content |-> <<line>>,
   metadata |-> NoMeta, history |-> <<>>, body |-> <<>>, inHistory |-> FALSE,
   pushed |-> 0, ref |-> ref]

\* the six field regexes of lines 241-257 applied to a bold line
FieldMatches(line) ==
  IF line.k = "bold2"
  THEN {<<"priority", <<line.d, line.s>>>>, <<"project", <<line.d, line.v>>>>}
  ELSE {<<key, <<line.d, line.v>>>> : key \in
          {m \in MetaKeys :
             \/ m = "priority" /\ line.s = "Priority"
             \/ m = "project" /\ line.s = "Project"
             \/ m = "assigned" /\ line.s = "Assigned"
             \/ m = "creator" /\ line.s = "Creator"
             \/ m = "tags" /\ line.s = "Tags"
             \/ m = "closed" /\ line.s = "Closed"}}

SetFields(meta, line) ==
  [key \in MetaKeys |->
     IF \E m \in FieldMatches(line) : m[1] = key
     THEN (CHOOSE m \in FieldMatches(line) : m[1] = key)[2]
     ELSE meta[key]]

\* the parser's loop variables before the first line
ParseInit ==
  [columns |-> <<>>, cur |-> 0, task |-> NoTask, configSection |-> FALSE,
   config |-> {}, made |-> 0]

\* a parser that pushes no task into its column
PushNothing(st) == st

\* if (currentTask && currentColumn) currentColumn.tasks.push(currentTask).
\* The array holds the object itself: a task that line 220 pushed while it
\* stayed the current task (pushed counts these) is in the array once more,
\* and each of its entries has what the later lines added to it
PushTask(st) ==
  IF st.task.open /\ st.cur # 0
  THEN [st EXCEPT !.columns[st.cur].tasks =
          @ \o [i \in 1..(st.task.pushed + 1) |-> [st.task EXCEPT !.pushed = 0]]]
  ELSE st

\* one iteration of the loop of lines 193-290
ParseLine(st, line) ==
  IF IsConfigHeader(line) THEN [st EXCEPT !.configSection = TRUE]
  ELSE IF IsColumnHeader(line) THEN
    LET p == PushTask(st)
    IN  [p EXCEPT !.configSection = FALSE,
                  !.task = NoTask,
                  !.columns = Append(@, [title |-> line.s, tasks |-> <<>>]),
                  !.cur = Len(p.columns) + 1]
  ELSE IF IsTaskStart(line) THEN
    IF IsTaskHeader(line)
    THEN [PushTask(st) EXCEPT !.task = NewTask(line, st.made + 1), !.made = @ + 1]
    ELSE IF st.task.open /\ st.cur # 0 THEN [st EXCEPT !.task.pushed = @ + 1]
    ELSE st
  ELSE IF st.task.open /\ StartsBold(line) THEN
    [st EXCEPT !.task.content = Append(@, line),
               !.task.metadata = SetFields(@, line)]
  ELSE IF st.task.open /\ IncludesHistoryOpen(line) THEN
    \* the line starts with "<!--", so the catch-all of line 277 skips it
    [st EXCEPT !.task.inHistory = TRUE, !.task.history = <<>>]
  ELSE IF st.task.open /\ st.task.inHistory THEN
    IF IncludesCommentClose(line) THEN [st EXCEPT !.task.inHistory = FALSE]
    ELSE IF ~IsBlankLine(line) THEN [st EXCEPT !.task.history = Append(@, line)]
    ELSE st
  ELSE IF st.task.open /\ ~IsBlankLine(line) /\ ~StartsComment(line) THEN
    [st EXCEPT !.task.content = Append(@, line), !.task.body = Append(@, line)]
  ELSE IF st.task.open /\ IsBlankLine(line) THEN
    [st EXCEPT !.task.content = Append(@, Blank)]
  ELSE IF st.configSection /\ StartsBold(line) THEN
    \* /\*\*([^*]+)\*\*:\s*(.+)$/: the first key of the line and the rest of it
    LET key == IF line.k = "bold2" THEN "Priority" ELSE line.s
        val == IF line.k = "bold2" THEN line.s ELSE line.v
    IN  [st EXCEPT !.config = {c \in @ : c[1] # key} \cup {<<key, val>>}]
  ELSE st

\* parseKanban(content): { columns, config }
parseKanban(lines) ==
  LET st == PushTask(ForEach(LAMBDA acc, i : ParseLine(acc, lines[i]),
                             ParseInit, 1, Len(lines)))
  IN  [columns |-> st.columns, config |-> st.config]

\* ----------------------------------------------------------- rebuildKanban

\* data.columns.find(c => c.title === colTitle): its index, 0 for undefined
FindColumn(columns, title) == FirstIndex(columns, LAMBDA c : c.title = title)

\* for (const task of col.tasks) { push(task.content.trim()); push('') }
EmitTasks(tasks) ==
  Concat([i \in 1..Len(tasks) |-> TrimLines(tasks[i].content) \o <<Blank>>])

\* a rebuilder that skips from its first line on
RebuildInitSkipping == [result |-> <<>>, skipUntilNextColumn |-> TRUE, eaten |-> 0]

\* the rebuilder's loop variables before the first line; eaten is the line
\* the i++ of line 323 steps over
RebuildInit == [result |-> <<>>, skipUntilNextColumn |-> FALSE, eaten |-> 0]

\* an iteration that skips the old body only of a column the model has
RebuildLineKeeping(data, lines, acc, i) ==
  IF acc.eaten = i THEN acc
  ELSE IF IsColumnHeader(lines[i]) THEN
    LET c == FindColumn(data.columns, lines[i].s)
        hint == c # 0 /\ i + 1 <= Len(lines) /\ StartsComment(lines[i + 1])
        r1 == acc.result \o <<lines[i], Blank>>
        r2 == IF hint THEN r1 \o <<lines[i + 1], Blank>> ELSE r1
        r3 == IF c # 0 THEN r2 \o EmitTasks(data.columns[c].tasks) ELSE r2
    IN  [result |-> r3, skipUntilNextColumn |-> c # 0,
         eaten |-> IF hint THEN i + 1 ELSE 0]
  ELSE IF acc.skipUntilNextColumn THEN acc
  ELSE [acc EXCEPT !.result = Append(@, lines[i])]

\* one iteration of the loop of lines 304-341
RebuildLine(data, lines, acc, i) ==
  IF acc.eaten = i THEN acc
  ELSE IF IsColumnHeader(lines[i]) THEN
    LET c == FindColumn(data.columns, lines[i].s)
        hint == c # 0 /\ i + 1 <= Len(lines) /\ StartsComment(lines[i + 1])
        r1 == acc.result \o <<lines[i], Blank>>
        r2 == IF hint THEN r1 \o <<lines[i + 1], Blank>> ELSE r1
        r3 == IF c # 0 THEN r2 \o EmitTasks(data.columns[c].tasks) ELSE r2
    IN  [result |-> r3, skipUntilNextColumn |-> TRUE,
         eaten |-> IF hint THEN i + 1 ELSE 0]
  ELSE IF acc.skipUntilNextColumn THEN acc
  ELSE [acc EXCEPT !.result = Append(@, lines[i])]

\* rebuildKanban(data, originalContent)
rebuildKanban(data, lines) ==
  ForEach(LAMBDA acc, i : RebuildLine(data, lines, acc, i),
          RebuildInit, 1, Len(lines)).result

\* ------------------------------------------------------------ task-id sentinel

RECURSIVE ToDigits(_)
\* Number.prototype.toString(): the decimal digits of n >= 0
ToDigits(n) == IF n < 10 THEN <<n>> ELSE Append(ToDigits(n \div 10), n % 10)

RECURSIVE ParseInt(_)
\* parseInt of a digit string
ParseInt(ds) ==
  IF ds = <<>> THEN 0 ELSE 10 * ParseInt(Take(ds, Len(ds) - 1)) + ds[Len(ds)]

RECURSIVE PadStart3(_)
\* String.prototype.padStart(3, '0')
PadStart3(ds) == IF Len(ds) >= 3 THEN ds ELSE PadStart3(<<0>> \o ds)

\* /<!-- Config: Last Task ID: (\d+) -->/ matches the line
IsSentinel(l) == l.k = "sent" /\ l.d # <<>>

\* getNextTaskId(content)
getNextTaskId(lines) ==
  LET i == FirstIndex(lines, IsSentinel)
      lastId == IF i # 0 THEN ParseInt(lines[i].d) ELSE 0
  IN  lastId + 1

\* a stamp that leaves the sentinel as it was
KeepSentinel(lines, newId) == lines

\* updateTaskIdInContent(content, newId): String.replace changes the first match
updateTaskIdInContent(lines, newId) ==
  LET i == FirstIndex(lines, IsSentinel)
  IN  IF i = 0 THEN lines
      ELSE [lines EXCEPT ![i] = Sentinel(PadStart3(ToDigits(newId)))]

\* ---------------------------------------------------------------- task ids

\* an id string "<words joined by '-'>-<digits>": p the words before the last
\* "-", d the digits after it; d = <<>> is a string that does not end in digits
IdOf(p, d) == [p |-> p, d |-> d]

NoId == IdOf(<<>>, <<>>)

\* String.prototype.toUpperCase on the words ids and project names are made of
UpperCase(w) ==
  CASE w = "task" -> "TASK"
    [] w = "acme" -> "ACME"
    [] w = "web" -> "WEB"
    [] OTHER -> w

\* the words /^[A-Z0-9_-]+$/i matches
WordChars == {"TASK", "task", "ACME", "acme", "WEB", "web"}

\* /^TASK-\d+$/i.test(taskIdInput)
IsInternalForm(id) == Len(id.p) = 1 /\ UpperCase(id.p[1]) = "TASK" /\ id.d # <<>>

\* taskIdInput.match(/^[A-Z0-9_-]+-(\d+)$/i)
IsPrefixedForm(id) ==
  /\ id.p # <<>> /\ id.d # <<>>
  /\ \A i \in 1..Len(id.p) : id.p[i] \in WordChars

\* normalizeTaskId(taskIdInput, projectId)
normalizeTaskId(id) ==
  IF IsInternalForm(id) THEN IdOf(<<"TASK">>, id.d)
  ELSE IF IsPrefixedForm(id) THEN IdOf(<<"TASK">>, PadStart3(id.d))
  ELSE id

\* buildDisplayId(taskId, projectId): the "TASK-" in front is cut off, the
\* rest is put behind the upper-cased project id
buildDisplayId(id, projectId) ==
  IF id.p # <<>> /\ UpperCase(id.p[1]) = "TASK" /\ (Len(id.p) > 1 \/ id.d # <<>>)
  THEN IdOf(<<UpperCase(projectId)>> \o Drop(id.p, 1), id.d)
  ELSE IdOf(<<UpperCase(projectId)>> \o id.p, id.d)

NoIds ==
  [project |-> "", input |-> NoId, internal |-> NoId, display |-> NoId,
   resolved |-> NoId]

\* ----------------------------------------------------------------- handlers

\* the column titles of the boards modelled, without their emoji
Titles == {"Backlog", "In Progress", "Review", "Done"}

\* String.prototype.includes on a column title: <<title, word>> pairs that hold
SubstringPairs == {<<t, t>> : t \in Titles}
Includes(title, word) == <<title, word>> \in SubstringPairs

\* lines[i].startsWith(`## ${column}`): <<header title, column>> pairs that
\* hold; "Back" is the title of no column and the start of "Backlog"
PrefixPairs == {<<t, t>> : t \in Titles} \cup {<<"Backlog", "Back">>}
HeaderStartsWith(l, column) == StartsH2(l) /\ <<l.s, column>> \in PrefixPairs

\* what a handler answers and, when it wrote, the text it wrote
Answer(status, wrote, content, id) ==
  [status |-> status, wrote |-> wrote, content |-> content, id |-> id]

\* lines 830-840: find or create the history block of task.content
AppendHistory(content, entry) ==
  LET i == FirstIndex(content, IncludesHistoryOpen)
      after == {j \in 1..Len(content) : j > i /\ IncludesCommentClose(content[j])}
  IN  IF i # 0 /\ after # {}
      THEN LET j == CHOOSE x \in after : \A y \in after : x <= y
           IN  Take(content, i) \o SubSeq(content, i + 1, j - 1)
                 \o (IF content[j].k = "hclose" THEN <<entry>>
                     ELSE <<L("merged", entry.d, entry.s, entry.v)>>)
                 \o <<HistClose>> \o Drop(content, j)
      ELSE TrimLines(content) \o <<Blank, HistOpen, entry, HistClose>>

\* task.content.includes('**Closed**:')
HasClosed(content) ==
  \E i \in 1..Len(content) : content[i].k = "bold" /\ content[i].s = "Closed"

\* `**Closed**: ${today} by ${req.user.name}`
ClosedLine(today, user) == L("bold", <<today>>, "Closed", user)

\* an insertion that puts the Closed line after the first line starting with "**"
EnsureClosedAfterFirst(content, today, user) ==
  IF HasClosed(content) THEN content
  ELSE LET insertIdx == FirstIndex(content, StartsBold)
       IN  Take(content, insertIdx) \o <<ClosedLine(today, user)>>
             \o Drop(content, insertIdx)

\* lines 846-854: insert the Closed line after the last line starting with "**"
EnsureClosed(content, today, user) ==
  IF HasClosed(content) THEN content
  ELSE LET insertIdx == LastIndex(content, StartsBold)
       IN  Take(content, insertIdx) \o <<ClosedLine(today, user)>>
             \o Drop(content, insertIdx)

\* srcCol.tasks.splice(taskIndex, 1)
RemoveTask(columns, c, t) == [columns EXCEPT ![c].tasks = RemoveAt(@, t)]

\* task.content = ...: every entry of the columns that is the object ref has
\* the new content
SetContent(columns, ref, content) ==
  [c \in 1..Len(columns) |->
     [columns[c] EXCEPT !.tasks =
        [t \in 1..Len(@) |->
           IF @[t].ref = ref THEN [@[t] EXCEPT !.content = content] ELSE @[t]]]]

\* a splice that puts the task at the end whatever the position
InsertTaskLast(columns, c, pos, task) ==
  [columns EXCEPT ![c].tasks = Append(@, task)]

\* destCol.tasks.splice(position ?? destCol.tasks.length, 0, task); pos < 0: none
InsertTask(columns, c, pos, task) ==
  [columns EXCEPT ![c].tasks =
     InsertAt(@, IF pos < 0 THEN Len(@) ELSE pos, task)]

\* POST /api/projects/:project/kanban/move, the function run under the lock;
\* data is parseKanban(content), the model of line 811
MoveTask(content, data, a, now) ==
  LET s == FindColumn(data.columns, a.from)
  IN  IF s = 0 THEN Answer("500", FALSE, content, a.id)
      ELSE
      LET t == FirstIndex(data.columns[s].tasks, LAMBDA x : x.id = a.id)
      IN  IF t = 0 THEN Answer("404", FALSE, content, a.id)
          ELSE
          LET task == data.columns[s].tasks[t]
              cols1 == RemoveTask(data.columns, s, t)
              dst == FindColumn(cols1, a.to)
              c1 == AppendHistory(task.content, Entry(now, a.user, "moved"))
              c2 == IF Includes(a.to, "Done") /\ ~Includes(a.from, "Done")
                    THEN EnsureClosed(c1, now, a.user) ELSE c1
          IN  IF dst = 0 THEN Answer("404", FALSE, content, a.id)
              ELSE
              LET cols2 == InsertTask(SetContent(cols1, task.ref, c2), dst, a.pos,
                                      [task EXCEPT !.content = c2])
              IN  Answer("ok", TRUE,
                         rebuildKanban([data EXCEPT !.columns = cols2], content), a.id)

\* the project name written into "**Project**: ..." by create and update
ProjectName == "proj"

\* lines 889-898: the markdown of a new task, split at its "\n"
NewTaskMd(ids, a, now) ==
  <<TaskHdr(ids, a.title), Blank, Bold2("P2", ProjectName),
    L("bold", <<now>>, "Created", ""), Blank>>
    \o (IF a.desc THEN <<Text("description"), Blank>> ELSE <<>>)
    \o <<HistOpen, Entry(now, a.user, "created"), HistClose, Blank>>

\* lines 904-915: the 1-based line the new task goes before, Len+1 for the
\* end of the text, 0 when no line starts with "## <column>"
InsertIndex(lines, column) ==
  LET i == FirstIndex(lines, LAMBDA l : HeaderStartsWith(l, column))
      next == {j \in 1..Len(lines) :
                 j > i /\ (StartsH2(lines[j]) \/ StartsTaskPrefix(lines[j]))}
  IN  IF i = 0 THEN 0
      ELSE IF next = {} THEN Len(lines) + 1
      ELSE CHOOSE j \in next : \A x \in next : j <= x

\* POST /api/projects/:project/tasks
CreateTask(content, a, now) ==
  LET taskId == getNextTaskId(content)
      ids == PadStart3(ToDigits(taskId))
      at == InsertIndex(content, a.col)
  IN  IF at = 0 THEN Answer("404", FALSE, content, ids)
      ELSE Answer("ok", TRUE,
                  updateTaskIdInContent(
                    Take(content, at - 1) \o NewTaskMd(ids, a, now)
                      \o Drop(content, at - 1),
                    taskId),
                  ids)

\* new RegExp(`### ${taskId} \\| .+?(?=### TASK-|## |$)`, 's'): the first and
\* the last line of the first match, <<0, 0>> when there is none; a match that
\* runs to the end of the text has last = Len(lines)
TaskSpan(lines, id) ==
  LET i == FirstIndex(lines, LAMBDA l : IsTaskHeader(l) /\ l.d = id)
      next == {j \in 1..Len(lines) :
                 j > i /\ (StartsH2(lines[j]) \/ StartsTaskPrefix(lines[j]))}
  IN  IF i = 0 THEN <<0, 0>>
      ELSE IF next = {} THEN <<i, Len(lines)>>
      ELSE <<i, (CHOOSE j \in next : \A x \in next : j <= x) - 1>>

\* content.replace(taskRegex, md) where md is repl, each line ended by "\n"
ReplaceSpan(lines, span, repl) ==
  IF span[2] = Len(lines)
  THEN Take(lines, span[1] - 1) \o repl \o <<Blank>>
  ELSE Take(lines, span[1] - 1) \o repl \o Drop(lines, span[2])

\* lines 960-973: the markdown update writes in place of the task
UpdatedTaskMd(old, a, now) ==
  LET c == FirstIndex(old, LAMBDA l : l.k = "bold" /\ l.s = "Created")
      created == IF c # 0 THEN old[c].d ELSE <<now>>
  IN  <<TaskHdr(a.id, a.title), Blank, Bold2("P2", ProjectName),
        L("bold", created, "Created", ""), Blank>>
        \o (IF a.desc THEN <<Text("description"), Blank>> ELSE <<>>)

\* PUT /api/projects/:project/tasks/:id
UpdateTask(content, a, now) ==
  LET span == TaskSpan(content, a.id)
  IN  IF span[1] = 0 THEN Answer("404", FALSE, content, a.id)
      ELSE Answer("ok", TRUE,
                  ReplaceSpan(content, span,
                              UpdatedTaskMd(SubSeq(content, span[1], span[2]), a, now)),
                  a.id)

\* the blank lines around line i: the first and the last line of the longest
\* run of blank lines that holds line i
BlankRun(lines, i) ==
  LET from == {a \in 1..i : \A j \in a..i : IsBlankLine(lines[j])}
      to == {b \in i..Len(lines) : \A j \in i..b : IsBlankLine(lines[j])}
  IN  <<CHOOSE a \in from : \A x \in from : a <= x,
        CHOOSE b \in to : \A x \in to : b >= x>>

\* content.replace(/\n{3,}/g, '\n\n'): a run of e blank lines between two
\* other lines is e+1 newlines, a run at the start or the end of the text is e
\* newlines and a text of blank lines only is e-1; three or more newlines
\* become two, so of such a run 1, 2 or 3 blank lines stay
CollapseNewlines(lines) ==
  LET n == Len(lines)
      Allowed(run) ==
        IF run[1] > 1 /\ run[2] < n THEN 1
        ELSE IF run[1] = 1 /\ run[2] = n THEN 3
        ELSE 2
      Keep(p) ==
        \/ ~IsBlankLine(p[2])
        \/ LET run == BlankRun(lines, p[1]) IN p[1] - run[1] < Allowed(run)
      kept == SelectSeq([i \in 1..n |-> <<i, lines[i]>>], Keep)
  IN  [k \in 1..Len(kept) |-> kept[k][2]]

\* DELETE /api/projects/:project/tasks/:id
DeleteTask(content, a) ==
  LET span == TaskSpan(content, a.id)
  IN  IF span[1] = 0 THEN Answer("404", FALSE, content, a.id)
      ELSE Answer("ok", TRUE,
                  CollapseNewlines(ReplaceSpan(content, span, <<>>)), a.id)

\* approve (closing = TRUE, to the first column whose title includes "Done")
\* and reject (to the first whose title includes "In Progress"), lines 1266-1311
\* and 1332-1365; data is parseKanban(content), the model of lines 1268, 1334
Review(content, data, a, now, target, act, closing) ==
  LET r == FirstIndex(data.columns, LAMBDA c : Includes(c.title, "Review"))
  IN  IF r = 0 THEN Answer("404", FALSE, content, a.id)
      ELSE
      LET t == FirstIndex(data.columns[r].tasks, LAMBDA x : x.id = a.id)
      IN  IF t = 0 THEN Answer("404", FALSE, content, a.id)
          ELSE
          LET task == data.columns[r].tasks[t]
              cols1 == RemoveTask(data.columns, r, t)
              dst == FirstIndex(cols1, LAMBDA c : Includes(c.title, target))
              c1 == AppendHistory(task.content, Entry(now, a.user, act))
              c2 == IF closing THEN EnsureClosed(c1, now, a.user) ELSE c1
          IN  IF dst = 0 THEN Answer("404", FALSE, content, a.id)
              ELSE
              LET cols2 == InsertTask(SetContent(cols1, task.ref, c2), dst, 0,
                                      [task EXCEPT !.content = c2])
              IN  Answer("ok", TRUE,
                         rebuildKanban([data EXCEPT !.columns = cols2], content), a.id)

\* POST /api/reviews/:taskId/approve
ApproveTask(content, data, a, now) ==
  Review(content, data, a, now, "Done", "approved", TRUE)

\* POST /api/reviews/:taskId/reject
RejectTask(content, data, a, now) ==
  Review(content, data, a, now, "In Progress", "rejected", FALSE)

\* POST /api/upload with taskId and project: lines 1524-1543
AttachImage(content, a) ==
  LET h == FirstIndex(content, LAMBDA l : IsTaskHeader(l) /\ l.d = a.id)
      imgs == {j \in 1..Len(content) : j > h /\ content[j].k = "img"}
  IN  IF h # 0 /\ imgs # {}
      THEN LET j == CHOOSE x \in imgs : \A y \in imgs : x <= y
               first == FirstIndex(content, LAMBDA l : l = content[j])
           IN  Answer("ok", TRUE,
                      [content EXCEPT ![first] = Images(content[j].d \o <<a.img>>)],
                      a.id)
      ELSE IF h # 0
      THEN Answer("ok", TRUE,
                  Take(content, h) \o <<Images(<<a.img>>)>> \o Drop(content, h), a.id)
      ELSE Answer("ok", TRUE, content, a.id)

\* PUT /api/projects/:project/kanban: the model the client sends is a.data
SaveBoard(content, a) ==
  Answer("ok", TRUE, rebuildKanban(a.data, content), a.id)

\* ------------------------------------------------------------------ requests

EmptyData == [columns |-> <<>>, config |-> {}]

\* the fields of a request body and its route; a handler reads the ones it uses
NoArgs ==
  [from |-> "", to |-> "", id |-> <<>>, pos |-> -1, user |-> "", title |-> "",
   col |-> "", desc |-> FALSE, img |-> 0, data |-> EmptyData]

Kinds ==
  {"move", "create", "update", "delete", "approve", "reject", "attach", "save"}

\* the handlers that run their read-modify-write cycle under withFileLock
\* (lines 806, 1266, 1332, 1523); the others read and write with no lock
Guarded(kind) == kind \in {"move", "approve", "reject", "attach"}

\* what handler `kind` does with the text it read, at time `now`; data is
\* parseKanban(content), which move, approve and reject compute first
Handle(kind, content, data, a, now) ==
  CASE kind = "move" -> MoveTask(content, data, a, now)
    [] kind = "create" -> CreateTask(content, a, now)
    [] kind = "update" -> UpdateTask(content, a, now)
    [] kind = "delete" -> DeleteTask(content, a)
    [] kind = "approve" -> ApproveTask(content, data, a, now)
    [] kind = "reject" -> RejectTask(content, data, a, now)
    [] kind = "attach" -> AttachImage(content, a)
    [] kind = "save" -> SaveBoard(content, a)

\* ------------------------------------------------------------------- state

VARIABLES
  files,      \* path -> the text stored in the board file, as lines
  fileLocks,  \* the keys of the fileLocks map (line 15)
  req,        \* slot -> a request in flight: its route, body and position
  clock,      \* the time new Date() gives, one tick per request
  last,       \* the request handled last by the sequential server, and its answer
  edits,      \* the lines changed by hand in the input text
  text,       \* the input text of the pure functions
  out,        \* what the pure functions gave for it
  stage,      \* "input" while the text is drawn, "done" once out is computed
  kept,       \* the column titles of the model handed to rebuildKanban
  ids         \* a task id as a request gives it, normalized, and displayed

vars == <<files, fileLocks, req, clock, last, edits, text, out, stage, kept, ids>>

\* ------------------------------------------------------------------ bounds

\* requests handled one after the other in Spec
MaxOps == 2
\* requests in flight together in SpecConc
MaxReqs == 2
\* the digits of a task id a request gives
MaxDigits == 4
\* lines changed by hand in a text of SpecPure
MaxEdits == 1

D3(n) == PadStart3(ToDigits(n))

\* a board as POST /api/projects (lines 488-512) and the handlers leave it:
\* the sentinel on top, a hint comment under a header, tasks written by create
BoardA ==
  <<Text("# Board"), Blank, Sentinel(D3(2)), Blank,
    ColHdr("Backlog"), Comment("hint"), Blank,
    TaskHdr(D3(1), "a"), Blank, Bold2("P2", ProjectName),
    L("bold", <<0>>, "Created", ""), Blank,
    HistOpen, Entry(0, "ann", "created"), HistClose, Blank,
    ColHdr("In Progress"), Blank,
    ColHdr("Review"), Blank,
    TaskHdr(D3(2), "b"), Blank, Bold2("P2", ProjectName),
    L("bold", <<0>>, "Created", ""), Blank,
    ColHdr("Done"), Blank>>

\* a board written by hand: no sentinel, a task with no bold field line
BoardB ==
  <<Text("# Notes"), Blank,
    ColHdr("Backlog"), Blank,
    TaskHdr(D3(1), "a"), Text("note"), Blank,
    ColHdr("Review"), Blank,
    TaskHdr(D3(2), "b"), Bold("Priority", "P1"), Blank,
    ColHdr("Done"), Blank>>

Boards == {BoardA, BoardB}

Paths == {"A", "B"}
Slots == 1..MaxReqs
Users == {"ann", "bob"}

\* the task ids and column titles requests name; "Blocked" and "Back" are on
\* no board
ReqIds == {D3(1), D3(2), D3(3)}
ReqTitles == {"Backlog", "Review", "Done"}

MoveTo(f, t, i, p) ==
  [NoArgs EXCEPT !.from = f, !.to = t, !.id = i, !.pos = p, !.user = "ann"]

MoveArgs ==
  {MoveTo(f, t, i, p) : f \in ReqTitles, t \in ReqTitles, i \in ReqIds, p \in {-1, 0}}
    \cup {MoveTo("Blocked", "Done", D3(1), -1), MoveTo("Backlog", "Blocked", D3(1), -1)}
CreateArgs ==
  {[NoArgs EXCEPT !.col = c, !.title = "n", !.user = "ann"] :
     c \in {"Backlog", "Done", "Blocked", "Back"}}
IdArgs == {[NoArgs EXCEPT !.id = i, !.user = "ann"] : i \in ReqIds}
UpdateArgs == {[a EXCEPT !.title = "u"] : a \in IdArgs}
AttachArgs == {[a EXCEPT !.img = 1] : a \in IdArgs}

\* the bodies a client may send to handler `kind`; the whole-board save sends
\* back data, the model GET /api/projects/:project/kanban gave the client
ArgsOf(kind, data) ==
  CASE kind = "move" -> MoveArgs
    [] kind = "create" -> CreateArgs
    [] kind = "update" -> UpdateArgs
    [] kind = "attach" -> AttachArgs
    [] kind = "save" -> {[NoArgs EXCEPT !.data = data]}
    [] OTHER -> IdArgs

NoLast == [kind |-> "", status |-> "", id |-> <<>>, a |-> NoArgs]

NoAnswer == Answer("", FALSE, <<>>, <<>>)

IdleReq ==
  [pc |-> "idle", kind |-> "", path |-> "", a |-> NoArgs, now |-> 0,
   ans |-> NoAnswer]

\* ------------------------------------------------- one request after another

Init ==
  /\ files \in [Paths -> Boards]
  /\ files["B"] = BoardB
  /\ fileLocks = {}
  /\ req = [r \in Slots |-> IdleReq]
  /\ clock = 0
  /\ last = NoLast
  /\ edits = 0
  /\ text = <<>>
  /\ out = <<>>
  /\ stage = "input"
  /\ kept = <<>>
  /\ ids = NoIds

\* a whole request on board "A" with nothing else in flight: the handler
\* reads the file, answers, and writes the file when it got that far
Serve(kind) ==
  /\ clock < MaxOps
  /\ LET content == files["A"]
         data == parseKanban(content)
     IN  \E a \in ArgsOf(kind, data) :
           LET ans == Handle(kind, content, data, a, clock + 1)
           IN  /\ files' = IF ans.wrote THEN [files EXCEPT !["A"] = ans.content]
                           ELSE files
               /\ last' = [kind |-> kind, status |-> ans.status, id |-> ans.id,
                           a |-> IF ans.status = "ok"
                                 THEN [a EXCEPT !.data = EmptyData] ELSE NoArgs]
  /\ clock' = clock + 1
  /\ UNCHANGED <<fileLocks, req, edits, text, out, stage, kept, ids>>

Move == Serve("move")
Create == Serve("create")
Update == Serve("update")
Delete == Serve("delete")
Approve == Serve("approve")
Reject == Serve("reject")
Attach == Serve("attach")
Save == Serve("save")

Next ==
  \/ Move
  \/ Create
  \/ Update
  \/ Delete
  \/ Approve
  \/ Reject
  \/ Attach
  \/ Save

Spec == Init /\ [][Next]_vars

\* ------------------------------------------------- requests in flight together

\* a wait loop that waits while any path is locked
AnyLockHeld(path) == fileLocks # {}

\* a wait loop that never finds the lock held
LockNeverSeen(path) == FALSE

\* fileLocks.get(filePath)
LockHeld(path) == path \in fileLocks

\* the requests clients send while others are in flight
ConcRequests ==
  {[kind |-> "move", path |-> p, a |-> MoveTo("Backlog", "Review", D3(1), -1)] :
     p \in Paths}
    \cup {[kind |-> "create", path |-> p, a |-> [NoArgs EXCEPT !.col = "Backlog",
                                                              !.title = "n"]] :
            p \in Paths}
    \cup {[kind |-> k, path |-> "A", a |-> [NoArgs EXCEPT !.id = D3(2)]] :
            k \in {"approve", "reject"}}
    \cup {[kind |-> k, path |-> "A", a |-> [NoArgs EXCEPT !.id = D3(1), !.title = "u",
                                                          !.img = 1]] :
            k \in {"update", "delete", "attach"}}
    \cup {[kind |-> "save", path |-> "A", a |-> NoArgs]}

InitConc ==
  /\ files = [p \in Paths |-> BoardA]
  /\ fileLocks = {}
  /\ req = [r \in Slots |-> IdleReq]
  /\ clock = 0
  /\ last = NoLast
  /\ edits = 0
  /\ text = <<>>
  /\ out = <<>>
  /\ stage = "input"
  /\ kept = <<>>
  /\ ids = NoIds

Others == <<last, edits, text, out, stage, kept, ids>>

\* a request arrives: its body is fixed (a whole-board save carries the model
\* the client got from GET just before), a guarded handler calls withFileLock
Arrive(r) ==
  /\ req[r].pc = "idle"
  /\ IF r = 1 THEN TRUE ELSE req[r - 1].pc # "idle"
  /\ \E q \in ConcRequests :
       req' = [req EXCEPT ![r] =
                 [pc |-> IF Guarded(q.kind) THEN "wait" ELSE "read",
                  kind |-> q.kind, path |-> q.path,
                  a |-> [q.a EXCEPT !.user = IF r = 1 THEN "ann" ELSE "bob",
                                    !.data = IF q.kind = "save"
                                             THEN parseKanban(files[q.path])
                                             ELSE EmptyData],
                  now |-> clock + 1, ans |-> NoAnswer]]
  /\ clock' = clock + 1
  /\ UNCHANGED <<files, fileLocks, Others>>

\* line 19 finds no lock and line 24 follows in the same turn of the event loop
Acquire(r) ==
  /\ req[r].pc = "wait"
  /\ ~LockHeld(req[r].path)
  /\ fileLocks' = fileLocks \cup {req[r].path}
  /\ req' = [req EXCEPT ![r].pc = "read"]
  /\ UNCHANGED <<files, clock, Others>>

\* line 19 finds the lock held: line 20 waits for the 50 ms timer
Sleep(r) ==
  /\ req[r].pc = "wait"
  /\ LockHeld(req[r].path)
  /\ req' = [req EXCEPT ![r].pc = "sleep"]
  /\ UNCHANGED <<files, fileLocks, clock, Others>>

\* a timer that never wakes its caller
WakeLost(r) ==
  /\ req[r].pc = "sleep"
  /\ UNCHANGED vars

\* the timer fires and the loop of line 19 tests again
Wake(r) ==
  /\ req[r].pc = "sleep"
  /\ req' = [req EXCEPT ![r].pc = "wait"]
  /\ UNCHANGED <<files, fileLocks, clock, Others>>

\* where a request goes when its handler has nothing more to do with the file
Leave(r) == IF Guarded(req[r].kind) THEN "unlock" ELSE "done"

\* fs.readFile resolves; the handler runs to its fs.writeFile or to its answer
Read(r) ==
  /\ req[r].pc = "read"
  /\ LET content == files[req[r].path]
         ans == Handle(req[r].kind, content, parseKanban(content), req[r].a,
                       req[r].now)
     IN  req' = [req EXCEPT ![r].ans = IF ans.wrote THEN ans
                                       ELSE [ans EXCEPT !.content = <<>>],
                            ![r].pc = IF ans.wrote THEN "write" ELSE Leave(r)]
  /\ UNCHANGED <<files, fileLocks, clock, Others>>

\* fs.writeFile replaces the file by the text the handler computed
Write(r) ==
  /\ req[r].pc = "write"
  /\ files' = [files EXCEPT ![req[r].path] = req[r].ans.content]
  /\ req' = [req EXCEPT ![r].pc = Leave(r), ![r].ans.content = <<>>]
  /\ UNCHANGED <<fileLocks, clock, Others>>

\* a finally that leaves the entry in fileLocks
ReleaseNothing(r) ==
  /\ req[r].pc = "unlock"
  /\ req' = [req EXCEPT ![r].pc = "done"]
  /\ UNCHANGED <<files, fileLocks, clock, Others>>

\* the finally of line 28: fileLocks.delete(filePath)
Release(r) ==
  /\ req[r].pc = "unlock"
  /\ fileLocks' = fileLocks \ {req[r].path}
  /\ req' = [req EXCEPT ![r].pc = "done"]
  /\ UNCHANGED <<files, clock, Others>>

NextConc ==
  \E r \in Slots :
    \/ Arrive(r)
    \/ Acquire(r)
    \/ Sleep(r)
    \/ Wake(r)
    \/ Read(r)
    \/ Write(r)
    \/ Release(r)

SpecConc == InitConc /\ [][NextConc]_vars

\* ------------------------------------------------- a write that fails

\* what fs.writeFile(path, data) can leave in the file when it rejects: the
\* old text when the open fails; when a write fails after the open with flag
\* 'w' has truncated the file, the part of data written so far
FailedWriteLeaves(old, data) == {old, <<>>, Take(data, Len(data) \div 2)}

\* fs.writeFile rejects: the catch of the handler answers 500, the finally of
\* withFileLock releases the lock; nothing is written again
WriteFails(r) ==
  /\ req[r].pc = "write"
  /\ \E left \in FailedWriteLeaves(files[req[r].path], req[r].ans.content) :
       files' = [files EXCEPT ![req[r].path] = left]
  /\ req' = [req EXCEPT ![r].pc = Leave(r), ![r].ans.content = <<>>,
                        ![r].ans.status = "500"]
  /\ UNCHANGED <<fileLocks, clock, Others>>

NextFail ==
  \/ NextConc
  \/ \E r \in Slots : WriteFails(r)

SpecFail == InitConc /\ [][NextFail]_vars

\* ------------------------------------------------- callers of withFileLock

\* how many calls of withFileLock are made in all
MaxCalls == 4

\* a lock that makes a caller wait while a caller that called earlier waits
CallInTurn(r) ==
  /\ req[r].pc \in {"idle", "done"}
  /\ clock < MaxCalls
  /\ \E p \in Paths :
       LET busy == \/ LockHeld(p)
                   \/ \E q \in Slots : req[q].pc \in {"wait", "sleep"} /\ req[q].path = p
       IN  /\ req' = [req EXCEPT ![r] =
                        [IdleReq EXCEPT !.kind = "move", !.path = p, !.now = clock + 1,
                                        !.pc = IF busy THEN "sleep" ELSE "read"]]
           /\ fileLocks' = IF busy THEN fileLocks ELSE fileLocks \cup {p}
  /\ clock' = clock + 1
  /\ UNCHANGED <<files, Others>>

\* withFileLock(filePath, fn) is called: the test of line 19 and, when it
\* finds no lock, the set of line 24 run in the turn of the call; now is the
\* order of the call among all calls.  A caller that has returned calls again
Call(r) ==
  /\ req[r].pc \in {"idle", "done"}
  /\ clock < MaxCalls
  /\ \E p \in Paths :
       /\ req' = [req EXCEPT ![r] =
                    [IdleReq EXCEPT !.kind = "move", !.path = p, !.now = clock + 1,
                                    !.pc = IF LockHeld(p) THEN "sleep" ELSE "read"]]
       /\ fileLocks' = IF LockHeld(p) THEN fileLocks ELSE fileLocks \cup {p}
  /\ clock' = clock + 1
  /\ UNCHANGED <<files, Others>>

\* await fn() of line 27 ends: fn returned or threw
Finish(r) ==
  /\ req[r].pc = "read"
  /\ req' = [req EXCEPT ![r].pc = "unlock"]
  /\ UNCHANGED <<files, fileLocks, clock, Others>>

NextLock ==
  \E r \in Slots :
    \/ Call(r)
    \/ Wake(r)
    \/ Acquire(r)
    \/ Sleep(r)
    \/ Finish(r)
    \/ Release(r)

SpecLock == InitConc /\ [][NextLock]_vars

\* the event loop runs every timer that is due and every continuation that
\* is ready, and every fn comes to its end; nothing obliges a caller to call
FairLock ==
  \A r \in Slots :
    /\ WF_vars(Wake(r))
    /\ WF_vars(Acquire(r))
    /\ WF_vars(Sleep(r))
    /\ WF_vars(Finish(r))
    /\ WF_vars(Release(r))

SpecLockFair == SpecLock /\ FairLock

\* ------------------------------------------------- parse and rebuild alone

\* the file POST /api/projects writes for a new board (lines 488-512)
Template ==
  <<Text("# Board"), Blank, Sentinel(D3(0)), Blank,
    CfgHdr, Bold("Board Name", "Board"), L("bold", <<0>>, "Created", ""), Blank,
    ColHdr("Ideas"), Comment("hint"), Blank,
    ColHdr("Backlog"), Comment("hint"), Blank,
    ColHdr("In Progress"), Comment("hint"), Blank,
    ColHdr("Blocked"), Comment("hint"), Blank,
    ColHdr("Review"), Comment("hint"), Blank,
    ColHdr("Done"), Comment("hint"), Blank>>

\* a board file that drifted under hand edits: a bold line and a task before
\* any column, text under a column header, a task header with no title, an
\* image comment, a history comment that is never closed, a heading that is
\* no column, and the configuration section at the end
BoardC ==
  <<Text("# Drift"), Bold("Owner", "x"), TaskHdr(D3(9), "early"), Blank,
    ColHdr("Backlog"), Text("loose"),
    TaskHdr(D3(1), "a"), Bold("Priority", "P1"), Images(<<1>>), Blank,
    BadTaskHdr(D3(5)), Text("t"),
    ColHdr("Done"), Blank,
    TaskHdr(D3(2), "b"), HistOpen, Entry(0, "ann", "created"),
    OtherHdr("Notes"), Text("n"),
    CfgHdr, Bold("Board Name", "x")>>

\* a board to which a person added a section of notes under a heading with an
\* emoji of their own, and whose configuration section is at the end
BoardE ==
  <<Text("# Board"), Blank, Sentinel(D3(1)), Blank,
    ColHdr("Backlog"), Blank,
    TaskHdr(D3(1), "a"), Bold("Priority", "P1"), Blank,
    PictoHdr("Launch"), Text("plan"), Blank,
    ColHdr("Done"), Blank,
    CfgHdr, Bold("Board Name", "Board"), Blank>>

PureBoards == {Template, BoardA, BoardB, BoardC, BoardE}

\* the titles of the columns of a parsed model, in order
ModelTitles(data) == [i \in 1..Len(data.columns) |-> data.columns[i].title]

\* the lines a person adds to a board file by hand
EditLines == {Blank, Comment("hint"), Text("note")}

InitPure ==
  /\ files = [p \in Paths |-> BoardA]
  /\ fileLocks = {}
  /\ req = [r \in Slots |-> IdleReq]
  /\ clock = 0
  /\ last = NoLast
  /\ edits = 0
  /\ text \in PureBoards
  /\ out = <<>>
  /\ stage = "input"
  /\ kept = <<>>
  /\ ids = NoIds

Fixed == <<files, fileLocks, req, clock, last, ids>>

\* the board file is edited outside the program: a line is added
AddLine ==
  /\ stage = "input"
  /\ edits < MaxEdits
  /\ \E i \in 0..Len(text), l \in EditLines : text' = InsertAt(text, i, l)
  /\ edits' = edits + 1
  /\ UNCHANGED <<out, stage, kept, Fixed>>

\* the board file is edited outside the program: a line is removed
DropLine ==
  /\ stage = "input"
  /\ edits < MaxEdits
  /\ \E i \in 1..Len(text) : text' = RemoveAt(text, i)
  /\ edits' = edits + 1
  /\ UNCHANGED <<out, stage, kept, Fixed>>

\* rebuildKanban(parseKanban(content), content), no change made in between
RoundTrip ==
  /\ stage = "input"
  /\ out' = rebuildKanban(parseKanban(text), text)
  /\ stage' = "done"
  /\ kept' = ModelTitles(parseKanban(text))
  /\ UNCHANGED <<text, edits, Fixed>>

\* rebuildKanban(data, content) where data is the parsed model less one
\* column, as a client of PUT /api/projects/:project/kanban may send it
RebuildWithout ==
  /\ stage = "input"
  /\ LET data == parseKanban(text)
     IN  \E c \in 1..Len(data.columns) :
           LET less == [data EXCEPT !.columns = RemoveAt(@, c)]
           IN  /\ out' = rebuildKanban(less, text)
               /\ kept' = ModelTitles(less)
  /\ stage' = "rebuilt"
  /\ UNCHANGED <<text, edits, Fixed>>

NextPure ==
  \/ AddLine
  \/ DropLine
  \/ RoundTrip
  \/ RebuildWithout

SpecPure == InitPure /\ [][NextPure]_vars

\* ------------------------------------------------- requests on a drifted board

\* a board of the program in which a person typed a task header with no
\* title under the first task and left two empty lines under the board title
BoardD ==
  <<Text("# Board"), Blank, Blank, Sentinel(D3(4)), Blank,
    ColHdr("Backlog"), Blank,
    TaskHdr(D3(1), "a"), Bold("Priority", "P1"), Blank,
    BadTaskHdr(D3(4)), Text("idea"), Blank,
    ColHdr("In Progress"), Blank,
    ColHdr("Review"), Blank,
    TaskHdr(D3(2), "b"), Bold("Priority", "P1"), Blank,
    ColHdr("Done"), Blank>>

HandBoards == {BoardC, BoardD}

\* the requests of Spec, served on a board file edited by hand
InitHand ==
  /\ files \in [Paths -> HandBoards \cup {BoardB}]
  /\ files["A"] \in HandBoards
  /\ files["B"] = BoardB
  /\ fileLocks = {}
  /\ req = [r \in Slots |-> IdleReq]
  /\ clock = 0
  /\ last = NoLast
  /\ edits = 0
  /\ text = <<>>
  /\ out = <<>>
  /\ stage = "input"
  /\ kept = <<>>
  /\ ids = NoIds

SpecHand == InitHand /\ [][Next]_vars

\* ------------------------------------------------- task ids of requests

\* the digit strings of up to MaxDigits digits, the empty one included
IdDigits == UNION {[1..n -> {0, 7}] : n \in 0..MaxDigits}

\* what stands before the digits of an id a client sends
IdWords == {<<"TASK">>, <<"task">>, <<"ACME">>, <<"acme">>, <<"my app">>,
            <<"ACME", "TASK">>}

ProjectIds == {"acme", "web"}

InitIds ==
  /\ files = [p \in Paths |-> BoardA]
  /\ fileLocks = {}
  /\ req = [r \in Slots |-> IdleReq]
  /\ clock = 0
  /\ last = NoLast
  /\ edits = 0
  /\ text = <<>>
  /\ out = <<>>
  /\ stage = "input"
  /\ kept = <<>>
  /\ ids \in {[NoIds EXCEPT !.project = pr, !.input = IdOf(w, d)] :
               pr \in ProjectIds, w \in IdWords, d \in IdDigits}

\* a handler takes the id of its request: normalizeTaskId(req.params.id, project)
Normalize ==
  /\ stage = "input"
  /\ ids' = [ids EXCEPT !.internal = normalizeTaskId(ids.input)]
  /\ stage' = "normalized"
  /\ UNCHANGED <<files, fileLocks, req, clock, last, edits, text, out, kept>>

\* the answer shows the task: buildDisplayId(task.id, project)
Display ==
  /\ stage = "normalized"
  /\ ids' = [ids EXCEPT !.display = buildDisplayId(ids.internal, ids.project)]
  /\ stage' = "displayed"
  /\ UNCHANGED <<files, fileLocks, req, clock, last, edits, text, out, kept>>

\* a client sends the display id of an answer back as the id of a request:
\* normalizeTaskId(req.params.id, project)
Resolve ==
  /\ stage = "displayed"
  /\ ids' = [ids EXCEPT !.resolved = normalizeTaskId(ids.display)]
  /\ stage' = "resolved"
  /\ UNCHANGED <<files, fileLocks, req, clock, last, edits, text, out, kept>>

NextIds ==
  \/ Normalize
  \/ Display
  \/ Resolve

SpecIds == InitIds /\ [][NextIds]_vars

\* ------------------------------------------------- reading the stored text

\* the ids of the task headers in the text, as a set
StoredIds(lines) == {lines[i].d : i \in {j \in 1..Len(lines) : IsTaskHeader(lines[j])}}

\* no two task headers of the text carry the same id
NoDuplicateIds(lines) ==
  \A i, j \in 1..Len(lines) :
    (i # j /\ IsTaskHeader(lines[i]) /\ IsTaskHeader(lines[j])) => lines[i].d # lines[j].d

\* the stored text of a task: its header line up to the next task or section
StoredTask(lines, id) ==
  LET span == TaskSpan(lines, id)
  IN  IF span[1] = 0 THEN <<>> ELSE SubSeq(lines, span[1], span[2])

\* the entries of the history block in the stored text of a task
StoredHistory(lines, id) ==
  LET t == StoredTask(lines, id)
      i == FirstIndex(t, IncludesHistoryOpen)
      closes == {j \in 1..Len(t) : j > i /\ t[j].k = "hclose"}
  IN  IF i = 0 \/ closes = {} THEN <<>>
      ELSE LET j == CHOOSE x \in closes : \A y \in closes : x <= y
           IN  SelectSeq(SubSeq(t, i + 1, j - 1), LAMBDA l : ~IsBlankLine(l))

\* the "**Closed**: ..." lines in the stored text of a task
ClosedLines(lines, id) ==
  SelectSeq(StoredTask(lines, id), LAMBDA l : l.k = "bold" /\ l.s = "Closed")

\* h is g with entries added at its end
IsPrefix(h, g) == Len(h) <= Len(g) /\ SubSeq(g, 1, Len(h)) = h

\* the titles of the column headers of the text, in order
ColumnTitles(lines) ==
  LET hs == SelectSeq(lines, IsColumnHeader)
  IN  [i \in 1..Len(hs) |-> hs[i].s]

\* the lines before the first column header
Preamble(lines) ==
  LET i == FirstIndex(lines, IsColumnHeader)
  IN  IF i = 0 THEN lines ELSE Take(lines, i - 1)

\* the lines under a column header, up to the next column header
ColumnBody(lines, title) ==
  LET i == FirstIndex(lines, LAMBDA l : IsColumnHeader(l) /\ l.s = title)
      next == {j \in 1..Len(lines) : j > i /\ IsColumnHeader(lines[j])}
  IN  IF i = 0 THEN <<>>
      ELSE IF next = {} THEN Drop(lines, i)
      ELSE SubSeq(lines, i + 1, (CHOOSE j \in next : \A x \in next : j <= x) - 1)

\* the value of the sentinel of the text; only for a text that has one
SentinelValue(lines) == ParseInt(lines[FirstIndex(lines, IsSentinel)].d)
HasSentinel(lines) == FirstIndex(lines, IsSentinel) # 0

\* the step just taken served a request of this kind and answered ok
Served(kind) == clock' = clock + 1 /\ last'.kind = kind /\ last'.status = "ok"

\* ------------------------------------------------- task ids (C4, C5)

\* C4: a create issues an id that no task of the document carries, the
\* document's ids stay unique, and the id is larger than the one the create
\* before it issued; this on every document, one without a sentinel included
C4_IdsUniqueIncreasing ==
  [][Served("create") =>
       /\ last'.id \notin StoredIds(files["A"])
       /\ NoDuplicateIds(files'["A"])
       /\ (last.kind = "create" /\ last.status = "ok")
            => ParseInt(last.id) < ParseInt(last'.id)]_vars

\* C5: on a document whose sentinel holds N, create answers id N+1 padded to
\* three digits, stores a task with that id, rewrites the sentinel to N+1 so
\* that getNextTaskId of the written text is N+2; a create right after another
\* create answers a different id
C5_CreateAdvancesSentinel ==
  [][(Served("create") /\ HasSentinel(files["A"])) =>
       LET N == SentinelValue(files["A"])
       IN  /\ last'.id = PadStart3(ToDigits(N + 1))
           /\ last'.id \in StoredIds(files'["A"])
           /\ HasSentinel(files'["A"])
           /\ files'["A"][FirstIndex(files'["A"], IsSentinel)]
                = Sentinel(PadStart3(ToDigits(N + 1)))
           /\ getNextTaskId(files'["A"]) = N + 2
           /\ (last.kind = "create" /\ last.status = "ok") => last'.id # last.id]_vars

\* two creates in a row on the board whose sentinel held 2: ids 003 and 004
C5_TwoCreatesServed ==
  /\ last.kind = "create" /\ last.status = "ok" /\ last.id = D3(4)
  /\ HasSentinel(files["A"]) /\ getNextTaskId(files["A"]) = 5
  /\ {D3(3), D3(4)} \subseteq StoredIds(files["A"])

\* ------------------------------------------------- history (C7, C8)

\* C7: when a move of a task follows a move of the same task, the task's
\* stored history is the history stored before with the second move's entry
\* added, and the entry before it is the first move's, as it was written
C7_TwoMovesTwoEntries ==
  [][(Served("move") /\ last.kind = "move" /\ last.status = "ok"
        /\ last.a.id = last'.a.id) =>
       LET before == StoredHistory(files["A"], last'.a.id)
           after == StoredHistory(files'["A"], last'.a.id)
       IN  /\ after = before \o <<Entry(clock', last'.a.user, "moved")>>
           /\ Len(after) >= 2
           /\ after[Len(after) - 1] = Entry(clock, last.a.user, "moved")]_vars

\* C8: whatever request is served, every task still stored keeps the history
\* entries it had, unchanged and in their order, new ones only added at the end
C8_HistoryAppendOnly ==
  [][\A id \in StoredIds(files'["A"]) :
       IsPrefix(StoredHistory(files["A"], id), StoredHistory(files'["A"], id))]_vars

\* ------------------------------------------------- the Closed field (C9)

\* C9: after a move of a task into Done from another column the task's stored
\* text has exactly one Closed line, and if it had one before the move (from an
\* earlier entry into Done) the line is the same
C9_ClosedOnce ==
  [][(Served("move") /\ Includes(last'.a.to, "Done") /\ ~Includes(last'.a.from, "Done")) =>
       LET before == ClosedLines(files["A"], last'.a.id)
           after == ClosedLines(files'["A"], last'.a.id)
       IN  /\ Len(after) = 1
           /\ before # <<>> => after = before]_vars

\* ------------------------------------------------- locality of a move (C10)

\* C10: a move between two columns leaves the lines before the first column,
\* the column headers and the body of every other column as they were
C10_MoveIsLocal ==
  [][(Served("move") /\ last'.a.from # last'.a.to) =>
       /\ Preamble(files'["A"]) = Preamble(files["A"])
       /\ ColumnTitles(files'["A"]) = ColumnTitles(files["A"])
       /\ \A i \in 1..Len(ColumnTitles(files["A"])) :
            LET c == ColumnTitles(files["A"])[i]
            IN  c \notin {last'.a.from, last'.a.to}
                  => ColumnBody(files'["A"], c) = ColumnBody(files["A"], c)]_vars

\* ------------------------------------------------- the round trip (C3)

\* C3: rebuilding from the model parsed out of a text, with no change made to
\* the model, gives back the text, line for line
C3_RoundTripIdentity == stage = "done" => out = text

\* ------------------------------------------------- requests in flight (C1, C2, C6)

\* request r is between fileLocks.set and fileLocks.delete
Holds(r) == Guarded(req[r].kind) /\ req[r].pc \in {"read", "write", "unlock"}

\* the text request r leaves when it runs from its read to its write alone
Alone(content, r) ==
  LET ans == Handle(req[r].kind, content, parseKanban(content), req[r].a, req[r].now)
  IN  IF ans.wrote THEN ans.content ELSE content

\* the orders the requests can be served in one after another
Orders == {f \in [Slots -> Slots] : \A i, j \in Slots : f[i] = f[j] => i = j}

\* the text of `path` after the requests from the i-th on ran alone in order f
RECURSIVE InOrder(_, _, _, _)
InOrder(content, f, i, path) ==
  IF i > MaxReqs THEN content
  ELSE InOrder(IF req[f[i]].path = path THEN Alone(content, f[i]) ELSE content,
               f, i + 1, path)

\* C1: when the requests sent together have all been answered, each board
\* file holds what serving them one after another, in some order, leaves
C1_SerialOutcome ==
  (\A r \in Slots : req[r].pc = "done") =>
    \A p \in Paths : \E f \in Orders : files[p] = InOrder(BoardA, f, 1, p)

\* C2: for each path at most one caller of withFileLock is between set and
\* delete, and the path is in fileLocks exactly while one is
C2_MutualExclusion ==
  \A p \in Paths :
    /\ Cardinality({r \in Slots : Holds(r) /\ req[r].path = p}) <= 1
    /\ p \in fileLocks <=> \E r \in Slots : Holds(r) /\ req[r].path = p

\* one caller holds the lock of a path, another found it held and waits
C2_OneHoldsOneWaits ==
  \E r1, r2 \in Slots :
    /\ r1 # r2 /\ req[r1].path = req[r2].path
    /\ Holds(r1) /\ req[r1].pc = "write"
    /\ req[r2].pc = "sleep"

\* C6: two creates on the same board, both answered ok, answered different ids
C6_ConcurrentCreatesDistinctIds ==
  \A r1, r2 \in Slots :
    (r1 # r2 /\ req[r1].kind = "create" /\ req[r2].kind = "create"
       /\ req[r1].path = req[r2].path
       /\ req[r1].ans.status = "ok" /\ req[r2].ans.status = "ok")
      => req[r1].ans.id # req[r2].ans.id

\* ------------------------------------------------- what rebuild keeps (C11, C12, C13)

\* the column header lines of a text, in order
HeaderLines(lines) == SelectSeq(lines, IsColumnHeader)

\* C11: the rebuilt text has the lines before the first column header and the
\* column header lines of the original, the same lines in the same order
C11_OutsideColumnsKept ==
  stage \in {"done", "rebuilt"} =>
    /\ Preamble(out) = Preamble(text)
    /\ HeaderLines(out) = HeaderLines(text)

\* a text edited by hand before its first column header was rebuilt, and the
\* rebuilt text is not the original
C11_EditedPreambleRebuilt ==
  /\ stage \in {"done", "rebuilt"}
  /\ out # text
  /\ Len(HeaderLines(text)) >= 2
  /\ \A b \in PureBoards : Preamble(text) # Preamble(b)

\* C12: with no change made to the model, the text rebuilt for each task is
\* the span the task had in the original (blank lines at its end aside)
C12_TaskSpanKept ==
  stage = "done" =>
    \A id \in StoredIds(text) :
      TrimLines(StoredTask(out, id)) = TrimLines(StoredTask(text, id))

\* C13: a column of the text whose title the model does not have comes out of
\* the rebuild with its header and its body lines as they were
C13_UnknownColumnKept ==
  stage = "rebuilt" =>
    \A h \in 1..Len(HeaderLines(text)) :
      LET c == HeaderLines(text)[h].s
      IN  (\A k \in 1..Len(kept) : kept[k] # c)
            => ColumnBody(out, c) = ColumnBody(text, c)

\* ------------------------------------------------- parsing any text (C16)

\* the ids of the tasks of a parsed model
ModelIds(data) ==
  UNION {{data.columns[c].tasks[t].id : t \in 1..Len(data.columns[c].tasks)} :
           c \in 1..Len(data.columns)}

\* the ids of the well-formed task headers under the column headers of a text
IdsUnderColumns(lines) ==
  {lines[i].d : i \in {j \in 1..Len(lines) :
                         IsTaskHeader(lines[j]) /\ j > Len(Preamble(lines))}}

\* C16: whatever the text, parseKanban returns a document {columns, config}:
\* its columns are the column headers of the text in order, its tasks are the
\* well-formed task headers under them, each with its header as first line
C16_ParseTotal ==
  LET d == parseKanban(text)
  IN  /\ DOMAIN d = {"columns", "config"}
      /\ ModelTitles(d) = ColumnTitles(text)
      /\ ModelIds(d) = IdsUnderColumns(text)
      /\ \A c \in 1..Len(d.columns) : \A t \in 1..Len(d.columns[c].tasks) :
           LET task == d.columns[c].tasks[t]
           IN  IsTaskHeader(task.content[1]) /\ task.content[1].d = task.id

\* a text was parsed that has a task header with no title, a history comment
\* never closed, a task before any column and a bold line outside any task
C16_DriftedTextParsed ==
  /\ stage = "done"
  /\ \E i \in 1..Len(text) : text[i].k = "badtask"
  /\ \E i \in 1..Len(text) :
       text[i].k = "hopen" /\ \A j \in (i + 1)..Len(text) : text[j].k # "hclose"
  /\ \E i \in 1..Len(Preamble(text)) : IsTaskHeader(text[i])
  /\ \E i \in 1..Len(Preamble(text)) :
       StartsBold(text[i]) /\ \A j \in 1..i : ~IsTaskHeader(text[j])

\* ------------------------------------------------- display ids (C17)

\* a display id "<PREFIX>-<digits>": one upper-case project word, then digits
IsDisplayForm(id) == Len(id.p) = 1 /\ id.p[1] \in {"ACME", "WEB"} /\ id.d # <<>>

\* C17: normalizeTaskId leaves TASK-<digits> as it is and turns a display id
\* <PREFIX>-<digits> into TASK-<digits>, the same digits; buildDisplayId turns
\* TASK-<digits> under project p into upper-case(p)-<digits>
C17_DisplayIdTransform ==
  /\ (stage \in {"normalized", "displayed"}
        /\ ids.input.p = <<"TASK">> /\ ids.input.d # <<>>)
       => ids.internal = ids.input
  /\ (stage \in {"normalized", "displayed"} /\ IsDisplayForm(ids.input))
       => ids.internal = IdOf(<<"TASK">>, ids.input.d)
  /\ (stage = "displayed" /\ ids.internal.p = <<"TASK">> /\ ids.internal.d # <<>>)
       => ids.display = IdOf(<<UpperCase(ids.project)>>, ids.internal.d)

\* ------------------------------------------------- the guard around the file (C14, C18)

\* request r is between its fs.readFile and the end of its fs.writeFile
InCycle(r) == req[r].pc \in {"read", "write"}

\* C14: a request that reads or writes a board file holds the lock of its
\* path from its read to its write, and no other request is in its
\* read-modify-write cycle on that path meanwhile
C14_CycleUnderGuard ==
  \A r \in Slots :
    InCycle(r) =>
      /\ req[r].path \in fileLocks
      /\ \A q \in Slots \ {r} : ~(InCycle(q) /\ req[q].path = req[r].path)

\* the requests that name path p
On(p) == {r \in Slots : req[r].pc # "idle" /\ req[r].path = p}

\* C18: a caller of withFileLock goes to sleep only when a request on its own
\* path holds the lock; a write changes only the file of the request that
\* writes; when all requests are answered, a path that one request named
\* holds what that request leaves alone, and a path none named is untouched
C18_PathsIndependent ==
  /\ [][/\ \A r \in Slots :
             (req[r].pc = "wait" /\ req'[r].pc = "sleep")
               => \E q \in Slots \ {r} : Holds(q) /\ req[q].path = req[r].path
        /\ \A p \in Paths :
             files'[p] # files[p]
               => \E r \in Slots : req[r].pc = "write" /\ req[r].path = p
                                     /\ req'[r].pc # "write"]_vars
  /\ []((\A r \in Slots : req[r].pc = "done")
          => \A p \in Paths :
               /\ On(p) = {} => files[p] = BoardA
               /\ \A r \in Slots : On(p) = {r} => files[p] = Alone(BoardA, r))

\* two guarded requests on different paths are both inside withFileLock, each
\* about to write its own file
C18_BothInsideTheirLocks ==
  \E r1, r2 \in Slots :
    /\ req[r1].path # req[r2].path
    /\ Holds(r1) /\ Holds(r2)
    /\ req[r1].pc = "write" /\ req[r2].pc = "write"

\* ------------------------------------------------- a failed write (C19)

\* C19: when the write of a request fails, the board file holds what it held
\* before the write began, and the request is answered with the failure
C19_FailedWriteKeepsFile ==
  [][\A r \in Slots :
       (req[r].pc = "write" /\ req'[r].ans.status = "500")
         => /\ files' = files
            /\ req'[r].pc = Leave(r)]_vars

\* ------------------------------------------------- move answers (C15)

\* C15: a move is answered "ok" or with the 404 outcome, never with another
\* error kind: it is "ok" only when the source column, the task in it and the
\* destination column are in the document, and 404 when one of them is missing
C15_MoveNotFound ==
  [][(clock' = clock + 1 /\ last'.kind = "move") =>
       /\ last'.status \in {"ok", "404"}
       /\ last'.status = "ok" =>
            LET data == parseKanban(files["A"])
                s == FindColumn(data.columns, last'.a.from)
            IN  /\ s # 0
                /\ \E t \in 1..Len(data.columns[s].tasks) :
                     data.columns[s].tasks[t].id = last'.a.id
                /\ FindColumn(data.columns, last'.a.to) # 0]_vars

\* ------------------------------------------------- history encoding (C20)

\* the word a handler writes into its history entry
ActionWord(kind) ==
  CASE kind = "move" -> "moved"
    [] kind = "approve" -> "approved"
    [] kind = "reject" -> "rejected"

\* C20: when a move, approve or reject of a task is served, a history block the
\* task's stored span had keeps its entries in order with the new entry added
\* before the closing marker; a span that had no block gets a block with the
\* new entry alone, after the trimmed span when no Closed line is added to it
C20_HistoryEncoding ==
  [][(Served("move") \/ Served("approve") \/ Served("reject")) =>
       LET id == last'.a.id
           span == StoredTask(files["A"], id)
           e == Entry(clock', last'.a.user, ActionWord(last'.kind))
           open == FirstIndex(span, IncludesHistoryOpen)
           hasBlock == open # 0 /\ \E j \in (open + 1)..Len(span) : span[j].k = "hclose"
       IN  IF hasBlock
           THEN StoredHistory(files'["A"], id) = StoredHistory(files["A"], id) \o <<e>>
           ELSE /\ StoredHistory(files'["A"], id) = <<e>>
                /\ ClosedLines(files'["A"], id) = ClosedLines(files["A"], id)
                     => TrimLines(StoredTask(files'["A"], id))
                          = TrimLines(span) \o <<Blank, HistOpen, e, HistClose>>]_vars

\* ------------------------------------------------- order of tasks (C21)

\* the tasks of a column of a parsed model, each as <<id, title>>, in order
TaskKeys(col) == [t \in 1..Len(col.tasks) |-> <<col.tasks[t].id, col.tasks[t].title>>]

HintUnder(lines, title) ==
  LET h == FirstIndex(lines, LAMBDA l : IsColumnHeader(l) /\ l.s = title)
      next == {j \in 1..Len(lines) : j > h /\ ~IsBlankLine(lines[j])}
  IN  IF h = 0 \/ next = {} THEN <<>>
      ELSE LET j == CHOOSE x \in next : \A y \in next : x <= y
           IN  IF StartsComment(lines[j]) THEN <<lines[j]>> ELSE <<>>

\* C22: each time a move, approve or reject is served (a parse, a rebuild and
\* a write), every column that had a hint comment under its header before has
\* the same comment under its header after
C22_HintKept ==
  [][(Served("move") \/ Served("approve") \/ Served("reject")) =>
       \A h \in 1..Len(HeaderLines(files["A"])) :
         LET c == HeaderLines(files["A"])[h].s
         IN  HintUnder(files["A"], c) # <<>>
               => HintUnder(files'["A"], c) = HintUnder(files["A"], c)]_vars

\* ------------------------------------------------- rebuilding twice (C23)

\* C23: the text R rebuilt from a text with no change to its model is a fixed
\* point: parsing R and rebuilding it gives R again
C23_RebuildIdempotent ==
  stage = "done" => rebuildKanban(parseKanban(out), out) = out

\* ------------------------------------------------- parser modes (C24)

\* the parser's loop variables after the first n lines of a text
ParseState(lines, n) ==
  ForEach(LAMBDA acc, i : ParseLine(acc, lines[i]), ParseInit, 1, n)

\* C24: at no line of the scan is the parser in the configuration section
\* with a task open, and a bold line read in the configuration section is not
\* given to a task
C24_ModesExclusive ==
  \A n \in 1..Len(text) :
    LET st0 == ParseState(text, n - 1)
        st == ParseState(text, n)
    IN  /\ ~(st.configSection /\ st.task.open)
        /\ (st0.configSection /\ StartsBold(text[n])) => st.task = st0.task

\* ------------------------------------------------- each task once (C25)

\* the tasks of a parsed model, column after column
ModelTasks(data) == Concat([c \in 1..Len(data.columns) |-> data.columns[c].tasks])

\* the lines of a text that are well-formed task headers under a column header
TaskHeadersUnderColumns(lines) ==
  {j \in 1..Len(lines) : IsTaskHeader(lines[j]) /\ j > Len(Preamble(lines))}

\* C25: whatever the text, the parsed model has one task for each well-formed
\* task header under a column header, and no task twice
C25_EachTaskOnce ==
  LET tasks == ModelTasks(parseKanban(text))
  IN  /\ Len(tasks) = Cardinality(TaskHeadersUnderColumns(text))
      /\ \A id \in StoredIds(text) :
           Cardinality({t \in 1..Len(tasks) : tasks[t].id = id})
             <= Cardinality({j \in 1..Len(text) : IsTaskHeader(text[j]) /\ text[j].d = id})

\* ------------------------------------------------- lines of an open task (C26)

\* C26: while a task is open, a line that is no column, configuration or task
\* header, no bold line and no line of a history block is added to the task's
\* content, and to its body too unless it is blank
C26_TaskLinesKept ==
  \A n \in 1..Len(text) :
    LET st0 == ParseState(text, n - 1)
        st == ParseState(text, n)
        line == text[n]
    IN  (/\ st0.task.open
         /\ ~IsConfigHeader(line) /\ ~IsColumnHeader(line) /\ ~IsTaskStart(line)
         /\ ~StartsBold(line)
         /\ ~IncludesHistoryOpen(line) /\ ~st0.task.inHistory)
          => /\ st.task.content = Append(st0.task.content, line)
             /\ st.task.body = IF IsBlankLine(line) THEN st0.task.body
                               ELSE Append(st0.task.body, line)

\* ------------------------------------------------- moves conserve tasks (C27)

\* how many task headers with an id a sequence of lines has
CountId(lines, id) ==
  Cardinality({j \in 1..Len(lines) : IsTaskHeader(lines[j]) /\ lines[j].d = id})

\* C27: when a move is served, the written file has the task ids of the file
\* read, each as many times as before, and each under the column it was
\* under, but for the moved task, which is one time less under the source
\* column and one time more under the destination column
C27_MoveConservesTasks ==
  [][Served("move") =>
       LET old == files["A"]
           new == files'["A"]
           a == last'.a
           Delta(c, id) == IF id # a.id \/ a.from = a.to THEN 0
                           ELSE IF c = a.to THEN 1
                           ELSE IF c = a.from THEN -1 ELSE 0
       IN  /\ StoredIds(new) = StoredIds(old)
           /\ \A id \in StoredIds(old) :
                /\ CountId(new, id) = CountId(old, id)
                /\ \A h \in 1..Len(HeaderLines(old)) :
                     LET c == HeaderLines(old)[h].s
                     IN  CountId(ColumnBody(new, c), id)
                           = CountId(ColumnBody(old, c), id) + Delta(c, id)]_vars

\* ------------------------------------------------- requests that fail (C28)

\* C28: the step in which a move, approve or reject gets the answer 404 or
\* 500 leaves every board file as it was, and when all requests are done no
\* lock is left
C28_ErrorLeavesFile ==
  /\ [][\A r \in Slots :
          (/\ req[r].kind \in {"move", "approve", "reject"}
           /\ req'[r].ans.status \in {"404", "500"}
           /\ req[r].ans.status # req'[r].ans.status)
            => files' = files]_vars
  /\ []((\A r \in Slots : req[r].pc = "done") => fileLocks = {})

\* ------------------------------------------------- where Closed goes (C29)

\* a move into a Done column from another column is served
MovedIntoDone ==
  Served("move") /\ Includes(last'.a.to, "Done") /\ ~Includes(last'.a.from, "Done")

\* the task a served move took, as parsed from the file read
TaskTaken ==
  LET data == parseKanban(files["A"])
      s == FindColumn(data.columns, last'.a.from)
  IN  data.columns[s].tasks[FirstIndex(data.columns[s].tasks,
                                       LAMBDA x : x.id = last'.a.id)]

\* the task a served move put into its destination column, as parsed from
\* the file written
TaskPut ==
  LET data == parseKanban(files'["A"])
      d == FindColumn(data.columns, last'.a.to)
  IN  data.columns[d].tasks[IF last'.a.pos < 0 THEN Len(data.columns[d].tasks)
                            ELSE last'.a.pos + 1]

\* C29: when a task that has bold field lines and no Closed line is moved
\* into a Done column, its lines in the file written are its lines in the
\* file read with the Closed line added directly after the last bold line
C29_ClosedAfterLastBold ==
  [][MovedIntoDone =>
       LET old == TrimLines(TaskTaken.content)
           b == LastIndex(old, StartsBold)
       IN  (~HasClosed(old) /\ b # 0) =>
             TrimLines(TaskPut.content)
               = Take(old, b) \o <<ClosedLine(clock', last'.a.user)>> \o Drop(old, b)]_vars

\* a task with two bold lines and a text line after them was moved into Done:
\* its Closed line stands between the bold lines and the text
C29_ClosedBetweenBoldAndText ==
  /\ last.kind = "move" /\ last.status = "ok"
  /\ Includes(last.a.to, "Done") /\ ~Includes(last.a.from, "Done")
  /\ LET t == StoredTask(files["A"], last.a.id)
     IN  \E i \in 1..Len(t) :
           /\ i >= 3 /\ i < Len(t)
           /\ t[i] = ClosedLine(clock, last.a.user)
           /\ StartsBold(t[i - 1]) /\ StartsBold(t[i - 2])

\* ------------------------------------------------- Closed after parsing (C30)

\* C30: after a move into a Done column or an approve is served, the file
\* written parsed again has the task where it was put in the Done column
\* with metadata.closed set, and the Closed line of this request in the
\* content of no other task
C30_ClosedOnTheTask ==
  [][(MovedIntoDone \/ Served("approve")) =>
       LET data == parseKanban(files'["A"])
           d == IF last'.kind = "move" THEN FindColumn(data.columns, last'.a.to)
                ELSE FirstIndex(data.columns, LAMBDA c : Includes(c.title, "Done"))
           k == IF last'.kind = "move" /\ last'.a.pos < 0
                THEN Len(data.columns[d].tasks)
                ELSE IF last'.kind = "move" THEN last'.a.pos + 1 ELSE 1
           new == ClosedLine(clock', last'.a.user)
       IN  /\ data.columns[d].tasks[k].id = last'.a.id
           /\ data.columns[d].tasks[k].metadata["closed"] # <<>>
           /\ \A c \in 1..Len(data.columns) : \A t \in 1..Len(data.columns[c].tasks) :
                (c # d \/ t # k) =>
                  \A i \in 1..Len(data.columns[c].tasks[t].content) :
                    data.columns[c].tasks[t].content[i] # new]_vars

\* ------------------------------------------------- the lock is released (C31)

\* C31: fileLocks has an entry for a path exactly while a request holds the
\* lock of the path; when a guarded request is done, whether it wrote, left
\* early or its write failed, its entry is gone, and with no guarded request
\* in progress fileLocks is empty
C31_LockReleased ==
  /\ fileLocks = {req[r].path : r \in {q \in Slots : Holds(q)}}
  /\ (\A r \in Slots : req[r].pc \in {"idle", "done"}) => fileLocks = {}

\* two guarded requests on one path are done, one left early with 404 and the
\* write of the other failed, and no lock is left
C31_FailedAndEarlyDone ==
  /\ fileLocks = {}
  /\ \E r, q \in Slots :
       /\ r # q /\ req[r].path = req[q].path
       /\ req[r].pc = "done" /\ Guarded(req[r].kind) /\ req[r].ans.status = "500"
       /\ req[q].pc = "done" /\ Guarded(req[q].kind) /\ req[q].ans.status = "404"

\* ------------------------------------------------- no order among waiters (C32)

\* caller r found the lock of its path held and has not got it since
Waiting(r) == req[r].pc \in {"wait", "sleep"}

C33_EveryCallerEnters ==
  \A r \in Slots :
    /\ Waiting(r) ~> Holds(r)
    /\ Holds(r) ~> req[r].pc = "done"

\* a caller has the lock of a path after a caller that called later than it
\* had the lock and returned
C33_EnteredAfterBeingPassed ==
  \E r, q \in Slots :
    /\ Holds(r) /\ req[q].pc = "done" /\ req[q].path = req[r].path
    /\ req[q].now > req[r].now

\* ------------------------------------------------- delete is local (C34)

\* C34: when a delete is served, the file written is the file read without
\* the lines of the task's span, every other line as it was; a delete that
\* is answered 404 writes nothing
C34_DeleteIsLocal ==
  [][(Served("delete") =>
        LET span == TaskSpan(files["A"], last'.a.id)
        IN  files'["A"] = ReplaceSpan(files["A"], span, <<>>))
     /\ ((clock' = clock + 1 /\ last'.kind = "delete" /\ last'.status = "404")
           => files' = files)]_vars

\* ------------------------------------------------- create in a column (C35)

\* C35: when a create is served for column C and the file read has a column
\* header titled C, the written file parsed again has the new task first in
\* column C and the tasks the file had, each in its column and in the order
\* they had; a create for a column the file has no header for is answered 404
\* and leaves the file, the sentinel in it included, as it was
C35_CreateInColumn ==
  [][/\ (Served("create") /\ \E k \in 1..Len(files["A"]) :
           IsColumnHeader(files["A"][k]) /\ files["A"][k].s = last'.a.col)
          => LET before == parseKanban(files["A"])
                 after == parseKanban(files'["A"])
                 c == FindColumn(after.columns, last'.a.col)
             IN  /\ ModelTitles(after) = ModelTitles(before)
                 /\ c # 0
                 /\ Len(after.columns[c].tasks) > 0
                 /\ after.columns[c].tasks[1].id = last'.id
                 /\ \A i \in 1..Len(before.columns) :
                      LET IsOld(k) == k # <<last'.id, last'.a.title>>
                      IN  SelectSeq(TaskKeys(after.columns[i]), IsOld)
                            = SelectSeq(TaskKeys(before.columns[i]), IsOld)
     /\ Served("create")
          => \E k \in 1..Len(files["A"]) :
               IsColumnHeader(files["A"][k]) /\ files["A"][k].s = last'.a.col
     /\ (clock' = clock + 1 /\ last'.kind = "create" /\ last'.status = "404")
          => files' = files]_vars

\* ------------------------------------------------- ids there and back (C36)

\* C36: for a task id TASK-<digits> as parseKanban reads it from a header,
\* whatever the number of digits, and every project, normalizeTaskId of the
\* display id buildDisplayId gives is the task id again
C36_IdRoundTrip ==
  (stage = "resolved" /\ ids.internal.p = <<"TASK">> /\ ids.internal.d # <<>>)
    => ids.resolved = ids.internal

\* ------------------------------------------------- a column the model lacks (C37)

\* C37: a column header of the text whose title the model given to
\* rebuildKanban does not have comes out as the header line and an empty
\* line, and nothing of the lines that were under it up to the next column
\* header or the end of the text
C37_UnknownColumnSkipped ==
  stage = "rebuilt" =>
    /\ ColumnTitles(out) = ColumnTitles(text)
    /\ \A h \in 1..Len(HeaderLines(text)) :
         LET c == HeaderLines(text)[h].s
         IN  (\A k \in 1..Len(kept) : kept[k] # c)
               => ColumnBody(out, c) = <<Blank>>

\* a rebuild with a model that lacks a column under which the text has a
\* task, and the output has no header of that task
C37_TasksOfUnknownColumnGone ==
  /\ stage = "rebuilt"
  /\ \E h \in 1..Len(HeaderLines(text)) :
       LET c == HeaderLines(text)[h].s
           body == ColumnBody(text, c)
       IN  /\ \A k \in 1..Len(kept) : kept[k] # c
           /\ \E j \in 1..Len(body) :
                /\ IsTaskHeader(body[j])
                /\ \A n \in 1..Len(out) : out[n] # body[j]

\* ------------------------------------------------- what a column header is (C38)

\* the text of the heading begins with one of the six markers
BeginsWithMarker(l) == l.k = "col"

\* C38: parseKanban opens a column at a line, and rebuildKanban writes the
\* line as a column header and skips from it on, exactly when the line is a
\* level-2 heading that begins with one of the six markers; at every line
\* the two do the same
C38_SixMarkersOnly ==
  \A n \in 1..Len(text) :
    LET data == parseKanban(text)
        p0 == ParseState(text, n - 1)
        p1 == ParseState(text, n)
        r0 == ForEach(LAMBDA acc, i : RebuildLine(data, text, acc, i),
                      RebuildInit, 1, n - 1)
        r1 == RebuildLine(data, text, r0, n)
        parsed == Len(p1.columns) = Len(p0.columns) + 1
        rebuilt == /\ r0.eaten # n
                   /\ r1.skipUntilNextColumn
                   /\ Len(r1.result) >= Len(r0.result) + 2
                   /\ r1.result[Len(r0.result) + 1] = text[n]
                   /\ r1.result[Len(r0.result) + 2] = Blank
    IN  /\ parsed <=> BeginsWithMarker(text[n])
        /\ rebuilt <=> BeginsWithMarker(text[n])
        /\ parsed <=> rebuilt

\* ------------------------------------------------- the configuration section (C39)

\* the "## ⚙️ Configuration" heading of a text and the bold lines under it, up
\* to the next level-2 heading
ConfigLines(lines) ==
  LET i == FirstIndex(lines, IsConfigHeader)
      next == {j \in 1..Len(lines) : j > i /\ StartsH2(lines[j])}
      end == IF next = {} THEN Len(lines)
              ELSE (CHOOSE j \in next : \A x \in next : j <= x) - 1
  IN  IF i = 0 THEN <<>>
      ELSE <<lines[i]>> \o SelectSeq(SubSeq(lines, i + 1, end), StartsBold)

\* C39: when a text whose Configuration heading comes after a column header
\* is parsed and rebuilt, the output has the heading and its key lines as
\* they were, and the output parses into the same config
C39_ConfigSurvives ==
  (/\ stage = "done"
   /\ FirstIndex(text, IsColumnHeader) # 0
   /\ FirstIndex(text, IsConfigHeader) > FirstIndex(text, IsColumnHeader))
    => /\ ConfigLines(out) = ConfigLines(text)
       /\ parseKanban(out).config = parseKanban(text).config

====
